---------------------------- MODULE Spec2Model ----------------------------
(***************************************************************************)
(* Model of idynamic.py: QueueManager keeps a pool of SLURM engine jobs    *)
(* near n_wanted by polling the jobs it submitted, killing the finished    *)
(* and the missing ones and submitting new ones under a queue cap.         *)
(*                                                                         *)
(* The program is single threaded.  The model follows the position of the  *)
(* interpreter inside infinite_poll / poll / submit_job / kill_job (pc),   *)
(* and lets the two outside parties act: the operator, who sends SIGINT,   *)
(* seen by Python 2 as a KeyboardInterrupt at the current position (a bare *)
(* `except:` catches it), and the scheduler, which changes the state it    *)
(* reports for a job (see SchedulerChange).  The Python lists of job ids   *)
(* hold distinct ids and are modelled as sets; the for loops over them     *)
(* visit the ids in any order.                                             *)
(***************************************************************************)
EXTENDS Integers, FiniteSets, Sequences, TLC

(* ------------------------------ bounds --------------------------------- *)
\* Largest n_wanted / max_n_queued the manager is configured with.
MaxWanted == 2
MaxQueuedCap == 2
\* Number of job ids the scheduler hands out before sbatch only fails.
MaxJobs == 3

JobIds == 1..MaxJobs

(* ------------------------- JobState (line 44-45) ----------------------- *)
RUNNING == "RUNNING"
SUSPENDED == "SUSPENDED"
COMPLETED == "COMPLETED"
TIMEOUT == "TIMEOUT"
COMPLETING == "COMPLETING"
PENDING == "PENDING"
\* A state token of SLURM that JobState does not list (CONFIGURING, FAILED,
\* CANCELLED, NODE_FAIL, ... all take the else branch of line 165).
CONFIGURING == "CONFIGURING"
\* find_id(job_id) returned an empty record: len(info) == 0.
NoRecord == "NoRecord"

JobStateTokens == {RUNNING, SUSPENDED, COMPLETED, TIMEOUT, COMPLETING, PENDING, CONFIGURING}
Infos == JobStateTokens \cup {NoRecord}

VARIABLES
    n_wanted,        \* self.n_wanted
    max_n_queued,    \* self.max_n_queued
    submitted_jobs,  \* self.submitted_jobs
    slurm_jobs,      \* what find_id reports for every tracked id
    next_id,         \* the id sbatch hands out next
    pc,              \* position of the interpreter
    caller,          \* who called the executing kill_job: "poll" or "except"
    running_ids, queued_ids, completed_ids, missing_ids,  \* locals of poll
    cleanup_left,    \* ids the running for loop over kill_job still has to visit
    n_submit,        \* local of poll (0 when the top-up branch is not taken)
    i,               \* number of submit_job calls started in this poll
    job_id,          \* argument of the executing kill_job
    jobs,            \* local of the except block of infinite_poll
    \* --- history (not program state) ---
    returned_ids,    \* ids slurm_submit has returned with job_id > 0
    unknown_ids,     \* ids whose token the last query did not recognise
    queried_jobs,    \* submitted_jobs as it was at the last query
    kill_requests,   \* number of slurm_kill_job calls per id since the last query / interrupt
    kill_failures,   \* ids whose slurm_kill_job call raised since the last query / interrupt
    added_ids,       \* ids added to submitted_jobs since the last query
    n_failed,        \* slurm_submit calls that returned no valid id since the last query
    cut_short,       \* the except block was entered while work of the running poll was left
    interrupted,     \* a KeyboardInterrupt has been delivered
    all_submitted,   \* previous poll returned and every submit_job of it succeeded
    prev_added,      \* the ids that poll added, when all_submitted
    unchanged,       \* no tracked job changed scheduler state since the last query
    second_run,      \* hypothesis of the two-polls property, fixed at the query
    first_added      \* the ids the first of the two polls added, when second_run

vars == <<n_wanted, max_n_queued, submitted_jobs, slurm_jobs, next_id, pc, caller,
          running_ids, queued_ids, completed_ids, missing_ids, cleanup_left,
          n_submit, i, job_id, jobs,
          returned_ids, unknown_ids, queried_jobs, kill_requests, kill_failures,
          added_ids, n_failed, cut_short, interrupted, all_submitted, prev_added, unchanged, second_run,
          first_added>>

config == <<n_wanted, max_n_queued>>
locals == <<running_ids, queued_ids, completed_ids, missing_ids, n_submit>>

Min(a, b) == IF a < b THEN a ELSE b

(* ------------------- get_submitted_job_info (147-168) ------------------ *)
\* The bucket one record is appended to; "none" is the else branch, which
\* only logs.
Classify(info) ==
    IF info = NoRecord THEN "missing"
    ELSE IF info \in {RUNNING, SUSPENDED} THEN "running"
    ELSE IF info = PENDING THEN "queued"
    ELSE IF info \in {COMPLETED, COMPLETING, TIMEOUT} THEN "completed"
    ELSE "none"

Bucket(b) == {id \in submitted_jobs : Classify(slurm_jobs[id]) = b}

(* ------------------------- poll, lines 88-90 --------------------------- *)
\* Faulty variant (sensitivity check): the loop visits completed_ids only.
CleanupIdsCompletedOnly(completed, missing) == completed

\* Faulty variant (sensitivity check): the loop also visits the pending jobs.
CleanupIdsAndQueued(completed, missing) == completed \cup missing \cup Bucket("queued")

\* The ids the clean-up loop visits: completed_ids + missing_ids.
CleanupIds(completed, missing) == completed \cup missing

(* ------------------------- poll, lines 98-102 -------------------------- *)
\* Faulty variants (sensitivity checks): the queue cap is forgotten; the
\* deficit is forgotten; one submission too few; queued jobs are not counted
\* towards n_wanted.
PlannedSubmitsNoCap(n_running, n_queued, wanted, max_queued) ==
    IF n_running + n_queued < wanted
    THEN wanted - (n_running + n_queued)
    ELSE 0

PlannedSubmitsNoDeficit(n_running, n_queued, wanted, max_queued) ==
    IF n_queued < max_queued
    THEN max_queued - n_queued
    ELSE 0

PlannedSubmitsOffByOne(n_running, n_queued, wanted, max_queued) ==
    IF n_running + n_queued < wanted /\ n_queued < max_queued
    THEN Min(wanted - (n_running + n_queued), max_queued - n_queued) - 1
    ELSE 0

PlannedSubmitsRunningOnly(n_running, n_queued, wanted, max_queued) ==
    IF n_running < wanted /\ n_queued < max_queued
    THEN Min(wanted - n_running, max_queued - n_queued)
    ELSE 0

\* Number of iterations of `for i in range(n_submit)`; 0 when the branch
\* that computes n_submit is not taken.
PlannedSubmits(n_running, n_queued, wanted, max_queued) ==
    IF n_running + n_queued < wanted /\ n_queued < max_queued
    THEN Min(wanted - (n_running + n_queued), max_queued - n_queued)
    ELSE 0

(* ----------------------- submit_job, lines 130-131 --------------------- *)
\* Faulty variant (sensitivity check): the test of line 130 is missing.
AddAlways(registry, id) == registry \cup {id}

\* submitted_jobs after submit_job got id from slurm_submit.
AddSubmitted(registry, id) ==
    IF id > 0 THEN registry \cup {id} ELSE registry

(* ------------------------- kill_job, line 139 -------------------------- *)
\* Faulty variant (sensitivity check): the id is not removed.
RemoveNothing(registry, id) == registry

\* submitted_jobs after self.submitted_jobs.remove(job_id), job_id a member.
RemoveJob(registry, id) == registry \ {id}

Restrict(f, S) == [x \in S |-> f[x]]

NoRequests == [id \in JobIds |-> 0]

(* ------------------------------- Init ---------------------------------- *)
\* __init__ (49-56) after check_args (225-230) accepted n_wanted and
\* max_n_queued; infinite_poll is about to call poll for the first time.
Init ==
    /\ n_wanted \in 1..MaxWanted
    /\ max_n_queued \in 1..MaxQueuedCap
    /\ submitted_jobs = {}
    /\ slurm_jobs = <<>>
    /\ next_id = 1
    /\ pc = "poll"
    /\ caller = "none"
    /\ running_ids = {} /\ queued_ids = {} /\ completed_ids = {} /\ missing_ids = {}
    /\ cleanup_left = {}
    /\ n_submit = 0
    /\ i = 0
    /\ job_id = 0
    /\ jobs = {}
    /\ returned_ids = {}
    /\ unknown_ids = {}
    /\ queried_jobs = {}
    /\ kill_requests = NoRequests
    /\ kill_failures = {}
    /\ added_ids = {}
    /\ n_failed = 0
    /\ cut_short = FALSE
    /\ interrupted = FALSE
    /\ all_submitted = FALSE
    /\ unchanged = FALSE
    /\ second_run = FALSE
    /\ prev_added = {}
    /\ first_added = {}


Track(f, S, new) == [x \in S |-> IF x \in DOMAIN f THEN f[x] ELSE new]

(* ------------------------------ poll ----------------------------------- *)
\* Lines 82-86: get_submitted_job_info fills the four lists from the state
\* the scheduler reports for every id of submitted_jobs; an unrecognised
\* token is logged and appended nowhere (165-166).
Query ==
    /\ pc = "poll"
    /\ running_ids' = Bucket("running")
    /\ queued_ids' = Bucket("queued")
    /\ completed_ids' = Bucket("completed")
    /\ missing_ids' = Bucket("missing")
    /\ cleanup_left' = CleanupIds(completed_ids', missing_ids')
    /\ n_submit' = 0
    /\ i' = 0
    /\ pc' = "cleanup"
    /\ unknown_ids' = Bucket("none")
    /\ queried_jobs' = submitted_jobs
    /\ kill_requests' = NoRequests
    /\ kill_failures' = {}
    /\ added_ids' = {}
    /\ n_failed' = 0
    /\ second_run' = (all_submitted /\ unchanged /\ missing_ids' = {} /\ unknown_ids' = {})
    /\ first_added' = IF second_run' THEN prev_added ELSE {}
    /\ unchanged' = TRUE
    /\ all_submitted' = FALSE
    /\ prev_added' = {}
    /\ UNCHANGED <<config, cut_short, submitted_jobs, slurm_jobs, next_id, caller, job_id, jobs,
                   returned_ids, interrupted>>

\* Lines 151/154 are not inside any try: an exception of pyslurm.job() or
\* find_id leaves poll and infinite_poll (only KeyboardInterrupt is caught
\* at line 67).
QueryRaises ==
    /\ pc = "poll"
    /\ pc' = "crashed"
    /\ UNCHANGED <<config, cut_short, submitted_jobs, slurm_jobs, next_id, caller, locals,
                   cleanup_left, i, job_id, jobs, returned_ids, unknown_ids,
                   queried_jobs, kill_requests, kill_failures, added_ids, n_failed,
                   interrupted, all_submitted, prev_added, unchanged, second_run, first_added>>

\* kill_job line 139, entered from the loop at `from` ("cleanup": line 89-90,
\* "except": line 73-74) with the next id of the list.
kill_job(from, id) ==
    /\ pc = from
    /\ id \in cleanup_left
    /\ cleanup_left' = cleanup_left \ {id}
    /\ job_id' = id
    /\ caller' = IF from = "cleanup" THEN "poll" ELSE "except"
    /\ submitted_jobs' = RemoveJob(submitted_jobs, id)
    /\ slurm_jobs' = Restrict(slurm_jobs, submitted_jobs')
    /\ pc' = "kill_try"
    /\ UNCHANGED <<config, cut_short, next_id, locals, i, jobs, returned_ids, unknown_ids,
                   queried_jobs, kill_requests, kill_failures, added_ids, n_failed,
                   interrupted, all_submitted, prev_added, unchanged, second_run, first_added>>

\* Line 89-90.
CleanupKill == \E id \in cleanup_left : kill_job("cleanup", id)

\* Lines 141-142: the try block is entered and slurm_kill_job is called.
KillCall ==
    /\ pc = "kill_try"
    /\ pc' = "slurm_kill"
    /\ kill_requests' = [kill_requests EXCEPT ![job_id] = @ + 1]
    /\ UNCHANGED <<config, cut_short, submitted_jobs, slurm_jobs, next_id, caller, locals,
                   cleanup_left, i, job_id, jobs, returned_ids, unknown_ids,
                   queried_jobs, kill_failures, added_ids, n_failed,
                   interrupted, all_submitted, prev_added, unchanged, second_run, first_added>>

\* Faulty variant (sensitivity check): kill_job always resumes the loop of
\* poll.
ReturnToCleanup(c) == "cleanup"

\* Where kill_job returns to: the loop of line 89, the loop of line 73, or a
\* caller outside QueueManager (kill_job is a public method).
ReturnTo(c) ==
    IF c = "poll" THEN "cleanup"
    ELSE IF c = "except" THEN "except"
    ELSE "call"

\* Lines 143-145: kill_job returns result (True, or False after the bare
\* except) to the loop that called it; neither caller reads the result.
KillDone(raised) ==
    /\ pc = "slurm_kill"
    /\ pc' = ReturnTo(caller)
    /\ kill_failures' = IF raised THEN kill_failures \cup {job_id} ELSE kill_failures
    /\ job_id' = 0
    /\ caller' = "none"
    /\ UNCHANGED <<config, cut_short, submitted_jobs, slurm_jobs, next_id, locals,
                   cleanup_left, i, jobs, returned_ids, unknown_ids,
                   queried_jobs, kill_requests, added_ids, n_failed,
                   all_submitted, prev_added, unchanged, second_run, first_added>>

KillReturns == KillDone(FALSE) /\ UNCHANGED <<interrupted>>
KillRaises == KillDone(TRUE) /\ UNCHANGED <<interrupted>>

\* Faulty variant (sensitivity check): line 92 may be reached before the
\* loop of line 89 has visited every id.
CleanupOverEarly(left) == TRUE

\* The loop of line 89 ends when it has visited every id of its list.
CleanupOver(left) == left = {}

\* Lines 92-101: the clean-up loop is over; the top-up decision.
TopUp ==
    /\ pc = "cleanup"
    /\ CleanupOver(cleanup_left)
    /\ n_submit' = PlannedSubmits(Cardinality(running_ids), Cardinality(queued_ids),
                                  n_wanted, max_n_queued)
    /\ i' = 0
    /\ pc' = "submit"
    /\ UNCHANGED <<config, cut_short, submitted_jobs, slurm_jobs, next_id, caller,
                   running_ids, queued_ids, completed_ids, missing_ids,
                   cleanup_left, job_id, jobs, returned_ids, unknown_ids,
                   queried_jobs, kill_requests, kill_failures, added_ids, n_failed,
                   interrupted, all_submitted, prev_added, unchanged, second_run, first_added>>

\* Lines 102-103, 120-129: one more iteration of the loop calls submit_job,
\* which enters the try block of slurm_submit (179) and runs sbatch.
SubmitCall ==
    /\ pc = "submit"
    /\ i < n_submit
    /\ i' = i + 1
    /\ pc' = "slurm_submit"
    /\ UNCHANGED <<config, cut_short, submitted_jobs, slurm_jobs, next_id, caller, locals,
                   cleanup_left, job_id, jobs, returned_ids, unknown_ids,
                   queried_jobs, kill_requests, kill_failures, added_ids, n_failed,
                   interrupted, all_submitted, prev_added, unchanged, second_run, first_added>>

\* Lines 185-189, 130-132: slurm_submit returns id (-1 when anything was
\* raised in its try block); submit_job adds it when it is positive.  A job
\* the scheduler accepted starts out pending.
SubmitDone(id) ==
    /\ pc = "slurm_submit"
    /\ submitted_jobs' = AddSubmitted(submitted_jobs, id)
    /\ slurm_jobs' = Track(slurm_jobs, submitted_jobs', IF id > 0 THEN PENDING ELSE NoRecord)
    /\ added_ids' = added_ids \cup (submitted_jobs' \ submitted_jobs)
    /\ n_failed' = IF id > 0 THEN n_failed ELSE n_failed + 1
    /\ returned_ids' = IF id > 0 THEN returned_ids \cup {id} ELSE returned_ids
    /\ next_id' = IF id > 0 THEN next_id + 1 ELSE next_id
    /\ pc' = "submit"
    /\ UNCHANGED <<config, cut_short, caller, locals, cleanup_left, i, job_id, jobs,
                   unknown_ids, queried_jobs, kill_requests, kill_failures,
                   all_submitted, prev_added, unchanged, second_run, first_added>>

SubmitReturnsId ==
    /\ next_id <= MaxJobs
    /\ SubmitDone(next_id)
    /\ UNCHANGED <<interrupted>>

SubmitFails == SubmitDone(-1) /\ UNCHANGED <<interrupted>>

\* The frame of poll is discarded, and with it what the history recorded
\* about this poll.
ForgetPoll ==
    /\ running_ids' = {} /\ queued_ids' = {} /\ completed_ids' = {} /\ missing_ids' = {}
    /\ n_submit' = 0
    /\ i' = 0
    /\ unknown_ids' = {}
    /\ queried_jobs' = {}
    /\ added_ids' = {}
    /\ n_failed' = 0
    /\ second_run' = FALSE
    /\ first_added' = {}

\* Poll has executed its last statement: the loop of line 102 is exhausted, or
\* was never entered.
AtReturn == pc = "submit" /\ i >= n_submit

\* Poll returns and infinite_poll sleeps (line 66).
PollReturns ==
    /\ AtReturn
    /\ pc' = "sleep"
    /\ all_submitted' = (Cardinality(added_ids) = i)
    /\ prev_added' = IF all_submitted' THEN added_ids ELSE {}
    /\ ForgetPoll
    /\ kill_requests' = NoRequests
    /\ kill_failures' = {}
    /\ UNCHANGED <<config, cut_short, submitted_jobs, slurm_jobs, next_id, caller,
                   cleanup_left, job_id, jobs, returned_ids,
                   interrupted, unchanged>>

\* Line 64-66: the sleep is over, the loop calls poll again.
Wake ==
    /\ pc = "sleep"
    /\ pc' = "poll"
    /\ UNCHANGED <<config, cut_short, submitted_jobs, slurm_jobs, next_id, caller, locals,
                   cleanup_left, i, job_id, jobs, returned_ids, unknown_ids,
                   queried_jobs, kill_requests, kill_failures, added_ids, n_failed,
                   interrupted, all_submitted, prev_added, unchanged, second_run, first_added>>

(* --------------------------- KeyboardInterrupt ------------------------- *)
\* Positions inside the try of infinite_poll (63-66) that are not inside the
\* try blocks of kill_job and slurm_submit.
InLoop == pc \in {"poll", "cleanup", "submit", "sleep"} \/ (pc = "kill_try" /\ caller = "poll")
InHandler == pc = "except" \/ (pc = "kill_try" /\ caller = "except")

\* The query of a poll is done and statements of lines 88-107 remain to be
\* executed: clean-up calls, or iterations of the submission loop.
WorkLeft ==
    \/ pc = "kill_try" /\ caller = "poll"
    \/ pc = "cleanup" /\ cleanup_left # {}
    \/ pc = "cleanup" /\ PlannedSubmits(Cardinality(running_ids), Cardinality(queued_ids),
                                       n_wanted, max_n_queued) > 0
    \/ pc = "submit" /\ i < n_submit

\* Lines 67-72: the interrupt reaches `except KeyboardInterrupt`, which
\* copies submitted_jobs into jobs.
InterruptCaught ==
    /\ InLoop
    /\ jobs' = submitted_jobs
    /\ cleanup_left' = submitted_jobs
    /\ pc' = "except"
    /\ caller' = "except"
    /\ job_id' = 0
    /\ ForgetPoll
    /\ kill_requests' = NoRequests
    /\ kill_failures' = {}
    /\ interrupted' = TRUE
    /\ all_submitted' = FALSE
    /\ prev_added' = {}
    /\ unchanged' = FALSE
    /\ cut_short' = WorkLeft
    /\ UNCHANGED <<config, submitted_jobs, slurm_jobs, next_id, returned_ids>>

\* Lines 141-144: the interrupt arrives while slurm_kill_job runs; the bare
\* except of kill_job catches it and kill_job returns False.
InterruptInKill ==
    /\ KillDone(TRUE)
    /\ interrupted' = TRUE

\* Lines 179-187: the interrupt arrives while sbatch runs; the bare except of
\* slurm_submit catches it and slurm_submit returns -1.
InterruptInSubmit ==
    /\ SubmitDone(-1)
    /\ interrupted' = TRUE

\* Lines 68-76 are outside any try: an interrupt there leaves infinite_poll
\* as an exception.
InterruptInHandler ==
    /\ InHandler
    /\ pc' = "crashed"
    /\ interrupted' = TRUE
    /\ UNCHANGED <<config, cut_short, submitted_jobs, slurm_jobs, next_id, caller, locals,
                   cleanup_left, i, job_id, jobs, returned_ids, unknown_ids,
                   queried_jobs, kill_requests, kill_failures, added_ids, n_failed,
                   all_submitted, prev_added, unchanged, second_run, first_added>>

(* ------------------- infinite_poll, except block (68-76) --------------- *)
\* Line 73-74.
DrainKill == \E id \in cleanup_left : kill_job("except", id)

\* The loop of line 73 is exhausted, or n_jobs = 0 (line 75-76):
\* infinite_poll returns.
DrainDone ==
    /\ pc = "except"
    /\ cleanup_left = {}
    /\ pc' = "returned"
    /\ UNCHANGED <<config, cut_short, submitted_jobs, slurm_jobs, next_id, caller, locals,
                   cleanup_left, i, job_id, jobs, returned_ids, unknown_ids,
                   queried_jobs, kill_requests, kill_failures, added_ids, n_failed,
                   interrupted, all_submitted, prev_added, unchanged, second_run, first_added>>

(* ----------------------------- scheduler ------------------------------- *)
\* The scheduler changes what it reports for a tracked job: any token, or no
\* record at all.  The manager reads the scheduler only at line 154, once per
\* poll and job, so a change made at any moment after one query has the effect
\* of the same change made just before the next one: the changes are taken
\* while infinite_poll sleeps.
SchedulerChange ==
    /\ pc = "sleep"
    /\ \E id \in submitted_jobs, info \in Infos :
          /\ info # slurm_jobs[id]
          /\ slurm_jobs' = [slurm_jobs EXCEPT ![id] = info]
    /\ unchanged' = FALSE
    /\ UNCHANGED <<config, cut_short, submitted_jobs, next_id, pc, caller, locals,
                   cleanup_left, i, job_id, jobs, returned_ids, unknown_ids,
                   queried_jobs, kill_requests, kill_failures, added_ids, n_failed,
                   interrupted, all_submitted, prev_added, second_run, first_added>>

Next ==
    \/ Query
    \/ QueryRaises
    \/ CleanupKill
    \/ KillCall
    \/ KillReturns
    \/ KillRaises
    \/ TopUp
    \/ SubmitCall
    \/ SubmitReturnsId
    \/ SubmitFails
    \/ PollReturns
    \/ Wake
    \/ InterruptCaught
    \/ InterruptInKill
    \/ InterruptInSubmit
    \/ InterruptInHandler
    \/ DrainKill
    \/ DrainDone
    \/ SchedulerChange

Spec == Init /\ [][Next]_vars

(* ------------------- kill_job called on its own ------------------------ *)
\* A manager that tracks any set of jobs it has submitted, all pending, and
\* a caller about to call kill_job.
InitKillJob ==
    /\ n_wanted \in 1..MaxWanted
    /\ max_n_queued \in 1..MaxQueuedCap
    /\ submitted_jobs \in SUBSET JobIds
    /\ slurm_jobs = [id \in submitted_jobs |-> PENDING]
    /\ returned_ids = JobIds
    /\ next_id = MaxJobs + 1
    /\ pc = "call"
    /\ caller = "none"
    /\ running_ids = {} /\ queued_ids = {} /\ completed_ids = {} /\ missing_ids = {}
    /\ cleanup_left = {}
    /\ n_submit = 0
    /\ i = 0
    /\ job_id = 0
    /\ jobs = {}
    /\ unknown_ids = {}
    /\ queried_jobs = {}
    /\ kill_requests = NoRequests
    /\ kill_failures = {}
    /\ added_ids = {}
    /\ n_failed = 0
    /\ cut_short = FALSE
    /\ interrupted = FALSE
    /\ all_submitted = FALSE
    /\ unchanged = FALSE
    /\ second_run = FALSE
    /\ prev_added = {}
    /\ first_added = {}

\* Line 139 with job_id in submitted_jobs: set.remove takes it out.
CallKillJob ==
    /\ pc = "call"
    /\ \E id \in JobIds :
          /\ id \in submitted_jobs
          /\ job_id' = id
          /\ submitted_jobs' = RemoveJob(submitted_jobs, id)
    /\ slurm_jobs' = Restrict(slurm_jobs, submitted_jobs')
    /\ caller' = "direct"
    /\ pc' = "kill_try"
    /\ UNCHANGED <<config, cut_short, next_id, locals, cleanup_left, i, jobs,
                   returned_ids, unknown_ids, queried_jobs, kill_requests,
                   kill_failures, added_ids, n_failed, interrupted, all_submitted,
                   prev_added, unchanged, second_run, first_added>>

\* Line 139 with job_id not in submitted_jobs: set.remove raises KeyError,
\* before the try of line 141, so kill_job raises it to its caller.
CallKillJobAbsent ==
    /\ pc = "call"
    /\ \E id \in JobIds :
          /\ id \notin submitted_jobs
          /\ job_id' = id
    /\ pc' = "KeyError"
    /\ UNCHANGED <<config, cut_short, submitted_jobs, slurm_jobs, next_id, caller,
                   locals, cleanup_left, i, jobs,
                   returned_ids, unknown_ids, queried_jobs, kill_requests,
                   kill_failures, added_ids, n_failed, interrupted, all_submitted,
                   prev_added, unchanged, second_run, first_added>>

NextKillJob ==
    \/ CallKillJob
    \/ CallKillJobAbsent
    \/ KillCall
    \/ KillReturns
    \/ KillRaises

SpecKillJob == InitKillJob /\ [][NextKillJob]_vars

(* ============================ properties =============================== *)
\* The interpreter is inside poll, after the query.
InPoll ==
    \/ pc \in {"cleanup", "submit", "slurm_submit"}
    \/ (pc \in {"kill_try", "slurm_kill"} /\ caller = "poll")

\* The top-up decision of this poll has been taken.
AfterTopUp == pc \in {"submit", "slurm_submit"}

n_running == Cardinality(running_ids)
n_queued == Cardinality(queued_ids)
Max(a, b) == IF a > b THEN a ELSE b

\* C1 (registry closure): in every state, inside a poll, between polls and
\* during or after the drain of the except block, every id of submitted_jobs
\* is an id that an earlier slurm_submit of this manager returned as a valid
\* (positive) job id.
RegistryClosure == submitted_jobs \subseteq returned_ids

\* The drain is killing the first of several tracked jobs, all of them
\* submitted by this manager.
RegistryClosureWitness ==
    /\ pc = "slurm_kill"
    /\ caller = "except"
    /\ submitted_jobs # {}
    /\ returned_ids \ submitted_jobs # {}

\* C2 (no orphaned unknown jobs): when a poll has run to its end, no id that
\* its query found without a record, or with a state token the classifier
\* does not recognise, is still in submitted_jobs.
NoOrphanedUnknown ==
    AtReturn => (missing_ids \cup unknown_ids) \cap submitted_jobs = {}

\* C3 (capacity bound): after the top-up decision of a poll, the running and
\* queued counts of its query plus the jobs submitted in it do not exceed
\* n_wanted.
CapacityBound ==
    AfterTopUp => n_running + n_queued + Cardinality(added_ids) <= n_wanted

\* C4 (queue cap within a poll), as claimed: in every poll the number of
\* submit_job calls is at most max_n_queued - n_queued, and n_queued plus the
\* jobs submitted in the poll is at most max_n_queued.
QueueCapAsClaimed ==
    InPoll => /\ i <= max_n_queued - n_queued
              /\ n_queued + Cardinality(added_ids) <= max_n_queued

\* C4 amended: in every poll the number of submit_job calls is at most
\* max_n_queued - n_queued or zero, whichever is larger; when the query finds
\* n_queued <= max_n_queued, n_queued plus the jobs submitted in the poll is
\* at most max_n_queued.
QueueCapRespected ==
    InPoll => /\ i <= Max(0, max_n_queued - n_queued)
              /\ n_queued <= max_n_queued
                    => n_queued + Cardinality(added_ids) <= max_n_queued

\* A poll ends having made as many submissions as the queue cap allows, fewer
\* than the deficit.
QueueCapRespectedWitness ==
    /\ AtReturn
    /\ i >= 1
    /\ i = max_n_queued - n_queued
    /\ i < n_wanted - (n_running + n_queued)
    /\ Cardinality(added_ids) = i

\* C5 (no submission when the guard is false): in a poll whose query gives
\* n_running + n_queued >= n_wanted, or n_queued >= max_n_queued, no submit_job
\* call is made and no id is added to submitted_jobs.
NoSubmitWhenGuardFalse ==
    (InPoll /\ (n_running + n_queued >= n_wanted \/ n_queued >= max_n_queued))
        => /\ i = 0
           /\ pc # "slurm_submit"
           /\ added_ids = {}
           /\ submitted_jobs \subseteq queried_jobs

\* A poll ends without a submission because the queue is full, although
\* fewer than n_wanted jobs are running or queued.
NoSubmitWhenGuardFalseWitness ==
    /\ AtReturn
    /\ n_queued >= max_n_queued
    /\ n_running + n_queued < n_wanted
    /\ i = 0

\* C6 (top-up amount): when a poll whose query gives n_running + n_queued <
\* n_wanted and n_queued < max_n_queued has run to its end, it has made exactly
\* min(n_wanted - (n_running + n_queued), max_n_queued - n_queued) submit_job
\* calls, at least one; and when all of them returned an id, submitted_jobs
\* is what the clean-up left of it plus that many new ids.
TopUpAmount ==
    (AtReturn /\ n_running + n_queued < n_wanted /\ n_queued < max_n_queued)
        => /\ i = Min(n_wanted - (n_running + n_queued), max_n_queued - n_queued)
           /\ i >= 1
           /\ Cardinality(added_ids) = i
                 => /\ added_ids \cap queried_jobs = {}
                    /\ submitted_jobs =
                          (queried_jobs \ (completed_ids \cup missing_ids)) \cup added_ids
                    /\ Cardinality(submitted_jobs) =
                          Cardinality(queried_jobs \ (completed_ids \cup missing_ids)) + i

\* The first poll of a manager with n_wanted = 2 and max_n_queued = 2 ends
\* with two jobs submitted into the empty registry.
TopUpAmountWitness ==
    /\ AtReturn
    /\ queried_jobs = {}
    /\ n_wanted = 2
    /\ i = 2
    /\ Cardinality(submitted_jobs) = 2

\* C7 (idempotent top-up and clean-up): in a poll that follows a poll all of
\* whose submit_job calls returned an id, with no change of the scheduler's
\* state of any tracked job between the two queries and no job missing or in
\* an unrecognised state at the second query, no kill request is issued, no
\* submit_job call is made and submitted_jobs stays what it was.
SecondPollIdle ==
    (InPoll /\ second_run)
        => /\ kill_requests = NoRequests
           /\ cleanup_left = {}
           /\ completed_ids = {}
           /\ i = 0
           /\ pc \in {"cleanup", "submit"}
           /\ submitted_jobs = queried_jobs

\* The second of two such polls ends; the first one had submitted a job
\* while another job was running.
SecondPollIdleWitness ==
    /\ AtReturn
    /\ second_run
    /\ first_added # {}
    /\ first_added \subseteq queued_ids
    /\ running_ids # {}

\* C8 (clean-up is unconditional): when a poll has run to its end, every id
\* its query classified as completed or as missing has been sent exactly one
\* kill request and is no longer in submitted_jobs, whether or not the kill
\* call raised; a raising kill call stops neither the clean-up of the other
\* ids nor the top-up.
CleanupUnconditional ==
    /\ AtReturn => \A id \in completed_ids \cup missing_ids :
                      /\ kill_requests[id] = 1
                      /\ id \notin submitted_jobs
    /\ (InPoll /\ pc \in {"cleanup", "submit", "slurm_submit"})
          => \A id \in (completed_ids \cup missing_ids) \ cleanup_left :
                /\ kill_requests[id] = 1
                /\ id \notin submitted_jobs

\* A poll ends after cleaning up a completed and a missing job, the kill of
\* one of which raised, and after submitting a new job.
CleanupUnconditionalWitness ==
    /\ AtReturn
    /\ completed_ids # {}
    /\ missing_ids # {}
    /\ kill_failures # {}
    /\ kill_failures # completed_ids \cup missing_ids
    /\ added_ids # {}

\* C9 (shutdown drain): when infinite_poll returns after handling an
\* interrupt, exactly one kill request has been issued for every id that was
\* in submitted_jobs when the except block was entered, none for any other
\* id (so none at all when it was empty), kill calls that raised included,
\* and submitted_jobs is empty.
DrainComplete ==
    pc = "returned"
        => /\ submitted_jobs = {}
           /\ \A id \in JobIds : kill_requests[id] = IF id \in jobs THEN 1 ELSE 0
           /\ kill_failures \subseteq jobs

\* infinite_poll returns after a drain of two jobs in which one kill raised.
DrainCompleteWitness ==
    /\ pc = "returned"
    /\ Cardinality(jobs) = 2
    /\ Cardinality(kill_failures) = 1

\* C10 (an interrupt always stops the loop): once a KeyboardInterrupt has
\* been delivered, wherever the interpreter was, no further poll is started
\* and no further submit_job call is made.
InterruptStopsLoop ==
    [][interrupted => ~(SubmitCall \/ Query)]_vars

\* C11 (submission attempts are independent): at every position of the
\* submit loop the ids added to submitted_jobs are as many as the slurm_submit
\* calls that returned a valid id (a call that returned none added nothing),
\* and submitted_jobs is what the clean-up left plus those ids; a failed call
\* is followed by the remaining iterations, so that a poll that has run to
\* its end has made exactly the planned number of submit_job calls, no more
\* (no retry) and no fewer (no abort).
AttemptsIndependent ==
    /\ AfterTopUp
          => /\ Cardinality(added_ids) + n_failed
                   = IF pc = "slurm_submit" THEN i - 1 ELSE i
             /\ added_ids \cap queried_jobs = {}
             /\ submitted_jobs =
                   (queried_jobs \ (completed_ids \cup missing_ids)) \cup added_ids
             /\ i <= n_submit
    /\ AtReturn
          => /\ i = n_submit
             /\ n_submit =
                   IF n_running + n_queued < n_wanted /\ n_queued < max_n_queued
                   THEN Min(n_wanted - (n_running + n_queued), max_n_queued - n_queued)
                   ELSE 0

\* A poll that planned two submissions ends after one failed and one
\* succeeded: the registry has grown by one.
AttemptsIndependentWitness ==
    /\ AtReturn
    /\ n_submit = 2
    /\ n_failed = 1
    /\ Cardinality(added_ids) = 1
    /\ Cardinality(submitted_jobs) = Cardinality(queried_jobs) + 1

\* C12 (collaborator failures never end the loop): infinite_poll is left,
\* by return or by an exception, only after a KeyboardInterrupt; an
\* exception raised by the state query, by a submit or by a kill does not
\* end the loop.
LoopEndsOnlyOnInterrupt ==
    pc \in {"returned", "crashed"} => interrupted

\* C13 (registry removal is idempotent): kill_job called with an id that is
\* not in submitted_jobs, for example the id of a kill_job call that has
\* already returned, signals no error.
RemoveAbsentNoError == pc # "KeyError"

\* C14 (classification is total): the four lists a query returns are
\* pairwise disjoint and together hold every id that was in submitted_jobs
\* when it was queried, an id with an unrecognised token included.
ClassificationTotal ==
    InPoll => /\ running_ids \cup queued_ids \cup completed_ids \cup missing_ids
                    = queried_jobs
              /\ running_ids \cap queued_ids = {}
              /\ (running_ids \cup queued_ids) \cap completed_ids = {}
              /\ (running_ids \cup queued_ids \cup completed_ids) \cap missing_ids = {}

\* C15 (live jobs are left alone): while a poll runs, every id its query put
\* in running_ids or queued_ids is still in submitted_jobs and no kill
\* request was issued for it; and whenever an id leaves submitted_jobs, it
\* does so in kill_job called by a poll whose query put it in completed_ids
\* or missing_ids, or in kill_job called by the except block.
LiveJobsRemovedOnlyLater ==
    \A id \in submitted_jobs \ submitted_jobs' :
        \/ caller' = "poll" /\ id \in completed_ids \cup missing_ids
                            /\ id \notin running_ids \cup queued_ids
        \/ caller' = "except" /\ interrupted

LiveJobsLeftAlone ==
    /\ [](InPoll => \A id \in running_ids \cup queued_ids :
                        id \in submitted_jobs /\ kill_requests[id] = 0)
    /\ [][LiveJobsRemovedOnlyLater]_vars

LiveJobsLeftAloneWitness ==
    /\ AtReturn
    /\ running_ids # {} /\ queued_ids # {}
    /\ \E id \in completed_ids \cup missing_ids :
          kill_requests[id] = 1 /\ id \notin submitted_jobs
    /\ running_ids \cup queued_ids \subseteq submitted_jobs

(* --------------- a scheduler that never requeues a job ----------------- *)
\* The scheduler of SchedulerChange, except that a job that has left the
\* pending state (it runs, is suspended, has ended, reports another token
\* or has no record) is never reported PENDING again.
SchedulerChangeNoRequeue ==
    /\ SchedulerChange
    /\ \A id \in submitted_jobs : slurm_jobs'[id] = PENDING => slurm_jobs[id] = PENDING

NextNoRequeue ==
    \/ Query
    \/ QueryRaises
    \/ CleanupKill
    \/ KillCall
    \/ KillReturns
    \/ KillRaises
    \/ TopUp
    \/ SubmitCall
    \/ SubmitReturnsId
    \/ SubmitFails
    \/ PollReturns
    \/ Wake
    \/ InterruptCaught
    \/ InterruptInKill
    \/ InterruptInSubmit
    \/ InterruptInHandler
    \/ DrainKill
    \/ DrainDone
    \/ SchedulerChangeNoRequeue

SpecNoRequeue == Init /\ [][NextNoRequeue]_vars

\* C16 (queue cap across cycles): when no job is ever reported PENDING again
\* after it has left that state, the query of every poll puts at most
\* max_n_queued ids in queued_ids, whatever submissions failed and whatever
\* else the jobs did in earlier polls.
QueueCapAcrossCycles ==
    InPoll => Cardinality(queued_ids) <= max_n_queued

QueueCapAcrossCyclesWitness ==
    /\ AtReturn
    /\ Cardinality(queued_ids) = max_n_queued
    /\ running_ids # {}
    /\ unknown_ids # {}
    /\ n_submit = 0

\* C17 (clean-up precedes top-up): while the clean-up loop of a poll still
\* runs, no top-up decision has been taken and no submit_job call made; once
\* the decision is taken, every id of completed_ids and missing_ids has had
\* its one kill request and is out of submitted_jobs, and none of them is in
\* running_ids or queued_ids, whose sizes alone decide n_submit.
CleanupPrecedesTopUp ==
    /\ (InPoll /\ ~AfterTopUp)
          => i = 0 /\ n_submit = 0 /\ added_ids = {} /\ n_failed = 0
    /\ AfterTopUp
          => /\ cleanup_left = {}
             /\ \A id \in completed_ids \cup missing_ids :
                   /\ kill_requests[id] = 1
                   /\ id \notin submitted_jobs
                   /\ id \notin running_ids \cup queued_ids
             /\ n_submit = PlannedSubmits(Cardinality(running_ids), Cardinality(queued_ids),
                                          n_wanted, max_n_queued)

CleanupPrecedesTopUpWitness ==
    /\ pc = "slurm_submit"
    /\ i = 1
    /\ completed_ids # {} /\ missing_ids # {}
    /\ running_ids \cup queued_ids # {}

\* The except block of infinite_poll (68-76) is executing.
Draining ==
    \/ pc = "except"
    \/ pc \in {"kill_try", "slurm_kill"} /\ caller = "except"

\* C18 as claimed (cycle and drain are mutually exclusive): whenever the
\* except block runs or has run, the interrupt that started it was raised
\* when no statement of a poll remained to be executed, so it never follows
\* a part of the clean-up or a part of the planned submissions.
DrainOnlyAfterWholeCycle ==
    (Draining \/ pc = "returned") => ~cut_short

\* C18 amended: the except block may be entered with work of the running poll
\* left undone, but once it is entered no statement of poll runs any more:
\* every further step is a step of the except block's loop or the end of
\* infinite_poll, the registry only shrinks and nothing is queried or
\* submitted.
NoPollStepInDrain ==
    (Draining \/ pc = "returned")
       => /\ Draining' \/ pc' \in {"returned", "crashed"}
          /\ submitted_jobs' \subseteq submitted_jobs
          /\ next_id' = next_id
          /\ ~(Query \/ CleanupKill \/ TopUp \/ SubmitCall \/ SubmitReturnsId
                 \/ SubmitFails \/ PollReturns \/ Wake)

DrainExcludesPoll ==
    /\ []((Draining \/ pc = "returned") => interrupted /\ ~InPoll /\ i = 0 /\ n_submit = 0)
    /\ [][NoPollStepInDrain]_vars

DrainExcludesPollWitness ==
    /\ pc = "returned"
    /\ cut_short
    /\ jobs # {}
    /\ submitted_jobs = {}

\* C19 (pool bound on the registry): when a poll has executed its last
\* statement, submitted_jobs holds at most n_wanted ids, whatever tokens the
\* scheduler reported and whichever submit and kill calls failed.
RegistryWithinPool ==
    AtReturn => Cardinality(submitted_jobs) <= n_wanted

(* ------------- a scheduler that starts every job it accepted ----------- *)
\* The scheduler of SchedulerChange restricted to: a pending job starts
\* running.
SchedulerStarts(id) ==
    /\ SchedulerChange
    /\ id \in submitted_jobs
    /\ slurm_jobs[id] = PENDING
    /\ slurm_jobs'[id] = RUNNING

\* The scheduler of SchedulerChange restricted to: a running job is suspended
\* or resumed; the query counts it as running either way (157-158).
SchedulerSuspendsResumes ==
    /\ SchedulerChange
    /\ \E id \in submitted_jobs :
          /\ slurm_jobs[id] \in {RUNNING, SUSPENDED}
          /\ slurm_jobs'[id] \in {RUNNING, SUSPENDED}
          /\ slurm_jobs'[id] # slurm_jobs[id]

\* infinite_poll with no interrupt and no exception of the query; a
\* submission may fail, a job the scheduler accepted is pending, then runs.
NextConverge ==
    \/ Query
    \/ TopUp
    \/ SubmitCall
    \/ SubmitReturnsId
    \/ SubmitFails
    \/ PollReturns
    \/ Wake
    \/ \E id \in JobIds : SchedulerStarts(id)
    \/ SchedulerSuspendsResumes

\* The loop of lines 64-66 keeps running; a submission is not refused for
\* ever; every pending job is started.
SpecConverge ==
    /\ Init
    /\ [][NextConverge]_vars
    /\ WF_vars(Query) /\ WF_vars(TopUp) /\ WF_vars(SubmitCall)
    /\ WF_vars(PollReturns) /\ WF_vars(Wake)
    /\ SF_vars(SubmitReturnsId)
    /\ \A id \in JobIds : SF_vars(SchedulerStarts(id))

\* n_wanted jobs are tracked and reported running, and the poll under way, if
\* any, found them so, has made no submit_job call and no kill request.
Settled ==
    /\ Cardinality(submitted_jobs) = n_wanted
    /\ \A id \in submitted_jobs : Classify(slurm_jobs[id]) = "running"
    /\ pc \in {"poll", "cleanup", "submit", "sleep"}
    /\ i = 0 /\ n_submit = 0
    /\ cleanup_left = {}
    /\ kill_requests = NoRequests
    /\ InPoll => Cardinality(running_ids) = n_wanted

\* C20 (convergence): with no interrupt, submissions that succeed, pending
\* jobs that are started and running jobs that stay running, infinite_poll
\* reaches a poll whose query finds n_wanted running jobs, and from then on
\* every poll finds the same and makes no submit_job call and no kill request.
Converges ==
    /\ <>[]Settled
    /\ []<>(pc = "cleanup" /\ Cardinality(running_ids) = n_wanted)

ConvergesWitness ==
    /\ Settled
    /\ AtReturn
    /\ n_wanted = 2
    /\ max_n_queued = 1

=============================================================================
